---- MODULE Spec2Model ----
(***************************************************************************)
(* A model of the quPSKd pre-shared-key rotation daemons.                  *)
(*                                                                         *)
(*   qupskd.py  two daemons X and Y, each with a timer loop                *)
(*              (fetch_peer_data) and a threaded request server            *)
(*              (handle_rotate, handle_ack) sharing the dict `state`.      *)
(*   ukms.py    one orchestrator with the peers A and B: per peer a fetch  *)
(*              task and an apply task on one event loop, and the request  *)
(*              server's threads.                                          *)
(*                                                                         *)
(* Strings are sequences of character codes (naturals).  Python's None is  *)
(* the value None, which no string equals.                                 *)
(***************************************************************************)
EXTENDS Integers, Sequences, FiniteSets, TLC

(***************************************************************************)
(* Strings and the derivers                                                *)
(***************************************************************************)
None == <<-1>>

Falsy(v) == v = None \/ v = <<>>

\* Python's str comparison: by code point, a proper prefix is smaller.
RECURSIVE StrLess(_, _)
StrLess(a, b) ==
  IF a = <<>> THEN b # <<>>
  ELSE IF b = <<>> THEN FALSE
  ELSE IF a[1] # b[1] THEN a[1] < b[1]
  ELSE StrLess(Tail(a), Tail(b))

RECURSIVE SortInsert(_, _)
SortInsert(x, s) ==
  IF s = <<>> THEN <<x>>
  ELSE IF StrLess(x, s[1]) THEN <<x>> \o s
  ELSE <<s[1]>> \o SortInsert(x, Tail(s))

\* A deriver that forgets to sort its parts.
sorted_Unsorted(l) == l

\* sorted(list of str)
RECURSIVE sorted(_)
sorted(l) == IF l = <<>> THEN <<>> ELSE SortInsert(l[1], sorted(Tail(l)))

\* "".join(parts)
RECURSIVE Join(_)
Join(l) == IF l = <<>> THEN <<>> ELSE l[1] \o Join(Tail(l))

\* base64.b64encode(sha3_256(s.encode()).digest()): the hash is taken as
\* collision free, so the digest of s is s under a tag no other string
\* starts with a different meaning for.
HashB64(s) == <<0>> \o s

sha3_base64(input) == HashB64(Join(sorted(input)))

\* The inline derivation of psk_update over [key, key_ID, psk].
PskDerive(key, key_ID, psk) == HashB64(Join(sorted(<<key, key_ID, psk>>)))

\* The derivation of ukms update_psk over [remote_key, key].
UkmsDerive(remote_key, key) == HashB64(Join(sorted(<<remote_key, key>>)))

IDENTITY_STRING == <<9>>
INITIATOR_WAIT_SECONDS == 120
RESPONDER_WAIT_SECONDS == 130

\* config.get("psk", ""): both daemons of a pairing are configured alike.
ConfigPsk == <<>>

Seed == sha3_base64(<<ConfigPsk, IDENTITY_STRING>>)

(***************************************************************************)
(* Bounds                                                                  *)
(***************************************************************************)
\* Keys the QKD source issues (enc_keys); the source stops answering then.
MaxKeys == 2
\* Transport failures (refused connection, failed QKD call, lost response).
MaxFailures == 2
\* Seconds of waiting taken in one step of the shared clock.
TickStride == 60
\* Requests of clients other than the peer.
MaxForeign == 1
\* Restarts of a daemon of the pairing.
MaxRestarts == 1

(***************************************************************************)
(* State                                                                   *)
(***************************************************************************)
VARIABLES
  \* qupskd
  state,     \* state[d]: the dict `state` of daemon d
  pc,        \* pc[d]: where d's timer loop (fetch_peer_data) stands
  treq,      \* treq[d]: the key_ID of d's outstanding dec_keys call
  thr,       \* thr[d][t]: request-server thread t of daemon d
  qkdNext,   \* the next key the QKD source issues
  fails,     \* transport failures so far
  att,       \* att[d]: history of d's current exchange attempt
  ncommit,   \* exchanges committed by their initiator so far
  nsolo,     \* those of them that ran alone, from equal PSKs
  started,   \* started[d]: d has sent /new or /rotate
  foreign,   \* requests sent by clients other than the peer so far
  hist,      \* hist[d]: what d has done since it started
  \* ukms
  peer_data, \* peer_data[p]: the record of peer p
  fpc,       \* fpc[p]: where p's fetch task (fetch_peer_data) stands
  apc,       \* apc[p]: where p's apply task (update_psk) stands
  uthr,      \* uthr[p]: the request-server thread serving peer p
  written,   \* written[p]: the PSK last written to wg2-<alias>.key
  up,        \* up[p]: whether calls to peer p's endpoints succeed
  uqkd,      \* the next key the orchestrator's QKD source issues
  holder,    \* the coroutine that holds the event loop
  \* two ukms daemons configured as each other's peer
  daemon,    \* daemon[m]: m's record of its peer, its tasks and its thread
  issued,    \* the keys the QKD source of the pair has issued so far
  \* the derivers, applied to given parts
  parts,     \* the list of parts handed to a deriver
  out        \* what the derivers returned for it

qvars ==
  <<state, pc, treq, thr, qkdNext, fails, att, ncommit, nsolo, started, foreign,
    hist>>
uvars == <<peer_data, fpc, apc, uthr, written, up, uqkd, holder>>
pvars == <<daemon, issued>>
dvars == <<parts, out>>
vars == <<qvars, uvars, pvars, dvars>>

(***************************************************************************)
(* qupskd: configuration of the pairing                                    *)
(***************************************************************************)
D == {"X", "Y"}
Peer(d) == IF d = "X" THEN "Y" ELSE "X"

source_KME_ID(d) == d
target_KME_ID(d) == Peer(d)

\* Path identifiers a request may carry.
PathIDs == {"X", "Y", "Z"}

\* Request-server threads of a daemon: "r" serves the peer's /new or
\* /rotate, "a" the peer's /ack, "s" a request of another client.
Threads == {"r", "a", "s"}

IdleThread == [pc |-> "idle", kind |-> "none", id |-> "none", sent |-> <<>>]

R404 == [status |-> 404, key_ID |-> None]
R200(k) == [status |-> 200, key_ID |-> k]

\* The fake QKD source: uuid4 key_IDs, key = b64(sha3(key_ID)).
KeyID(n) == <<n>>
KeyOf(id) == HashB64(id)

InitState ==
  [key |-> None, key_ID |-> None, last_rotate |-> -1, initiator |-> FALSE,
   psk |-> Seed]

\* No attempt under way: the history of a finished attempt is dropped.
NoAttempt ==
  [active |-> FALSE, solo |-> FALSE, yielded |-> FALSE, acked |-> FALSE,
   psk0 |-> [e \in D |-> None], st0 |-> InitState]

\* A daemon that has just started.
NoHistory == [rotated |-> FALSE, acked |-> FALSE, restarts |-> 0]

QInit ==
  /\ state = [d \in D |-> InitState]
  /\ hist = [d \in D |-> NoHistory]
  /\ pc = [d \in D |-> "loop"]
  /\ treq = [d \in D |-> None]
  /\ thr = [d \in D |-> [t \in Threads |-> IdleThread]]
  /\ qkdNext = 1
  /\ att = [d \in D |-> NoAttempt]
  /\ ncommit = 0
  /\ nsolo = 0
  /\ started = [d \in D |-> FALSE]
  /\ foreign = 0

(***************************************************************************)
(* qupskd: helpers of the code                                             *)
(***************************************************************************)
\* fetch_qkd: both assignments from the QKD answer for key_ID id.
fetch_qkd(st, id) == [st EXCEPT !.key_ID = id, !.key = KeyOf(id)]

\* psk_update: the new psk from key, key_ID and the previous psk.
psk_update(st) == [st EXCEPT !.psk = PskDerive(st.key, st.key_ID, st.psk)]

\* sorted() of a list holding None raises TypeError.
PskUpdateRaises(st) == st.key = None \/ st.key_ID = None

\* check_peer: writes the 404 response on a mismatch, and returns.
check_peer(s, id) == IF id # target_KME_ID(s) THEN <<R404>> ELSE <<>>

\* The waiting window of the timer loop for the role d holds.
Window(d) ==
  IF state[d].initiator THEN INITIATOR_WAIT_SECONDS ELSE RESPONDER_WAIT_SECONDS

Waiting(d) == -1 < state[d].last_rotate /\ state[d].last_rotate < Window(d)

Min(a, b) == IF a < b THEN a ELSE b

\* No request is being served and no answer is waiting to be read.
Free(th) == th.pc = "idle" /\ th.sent = <<>>

\* What the client of a connection reads: the first response written.
Answered200(th) == th.sent # <<>> /\ Head(th.sent).status = 200

(***************************************************************************)
(* qupskd: the timer loop, fetch_peer_data                                 *)
(***************************************************************************)
\* The shared 1-second clock advances by TickStride seconds.  A step of
\* the clock is long against a call: it is taken when every timer loop
\* sleeps (inside its waiting window, or in the except branch) and no
\* request is being served.  A daemon inside its window has then counted
\* TickStride iterations of "last_rotate += 1; sleep(1)", or as many as its
\* window leaves; a daemon in the except branch is back at the loop.
Tick ==
  /\ \A d \in D : (pc[d] = "loop" /\ Waiting(d)) \/ pc[d] = "except"
  /\ \A d \in D : \A t \in Threads : thr[d][t].pc = "idle"
  /\ state' = [d \in D |->
       IF pc[d] = "loop"
       THEN [state[d] EXCEPT
               !.last_rotate = Min(state[d].last_rotate + TickStride, Window(d))]
       ELSE state[d]]
  /\ pc' = [d \in D |-> "loop"]
  /\ UNCHANGED <<treq, thr, qkdNext, fails, att, ncommit, nsolo, started, foreign>>
  /\ UNCHANGED hist
  /\ UNCHANGED <<uvars, dvars, pvars>>

\* The window is over: take the Initiator role and call /new or /rotate.
\* The request reaches the peer's server, or the connection fails.
TimerBegin(d) ==
  /\ pc[d] = "loop"
  /\ ~Waiting(d)
  /\ Free(thr[Peer(d)]["r"])
  /\ LET kind == IF Falsy(state[d].key_ID) THEN "new" ELSE "rotate"
         st == [state[d] EXCEPT !.initiator = TRUE]
         solo == /\ pc[Peer(d)] \in {"loop", "except"}
                 /\ \A e \in D : \A t \in Threads : thr[e][t].pc = "idle"
     IN /\ state' = [state EXCEPT ![d] = st]
        /\ \E delivered \in BOOLEAN :
             /\ delivered \/ fails < MaxFailures
             /\ thr' = IF delivered
                       THEN [thr EXCEPT ![Peer(d)]["r"] =
                               [pc |-> "recv", kind |-> kind,
                                id |-> source_KME_ID(d), sent |-> <<>>]]
                       ELSE thr
             /\ fails' = IF delivered THEN fails ELSE fails + 1
        /\ att' = [e \in D |->
             IF e = d
             THEN [active |-> TRUE, solo |-> solo, yielded |-> FALSE,
                   acked |-> FALSE,
                   psk0 |-> [x \in D |-> state[x].psk], st0 |-> st]
             ELSE IF att[e].active THEN [att[e] EXCEPT !.solo = FALSE]
             ELSE att[e]]
  /\ pc' = [pc EXCEPT ![d] = "wait_rotate"]
  /\ started' = [started EXCEPT ![d] = TRUE]
  /\ UNCHANGED <<treq, qkdNext, ncommit, nsolo, foreign>>
  /\ UNCHANGED hist
  /\ UNCHANGED <<uvars, dvars, pvars>>

\* /new or /rotate answered 200: keep its key_ID and call dec_keys for it.
TimerRotateOk(d) ==
  /\ pc[d] = "wait_rotate"
  /\ LET th == thr[Peer(d)]["r"]
     IN /\ th.pc \in {"post", "idle"}
        /\ Answered200(th)
        /\ state' = [state EXCEPT ![d].key_ID = Head(th.sent).key_ID]
        /\ treq' = [treq EXCEPT ![d] = Head(th.sent).key_ID]
  /\ thr' = [thr EXCEPT ![Peer(d)]["r"].sent = <<>>]
  /\ pc' = [pc EXCEPT ![d] = "wait_dec"]
  /\ UNCHANGED <<qkdNext, fails, att, ncommit, nsolo, started, foreign>>
  /\ UNCHANGED hist
  /\ UNCHANGED <<uvars, dvars, pvars>>

\* /new or /rotate failed: no answer, a 404, or the 200 was lost.
TimerRotateFail(d) ==
  /\ pc[d] = "wait_rotate"
  /\ LET th == thr[Peer(d)]["r"]
     IN /\ th.pc \in {"post", "idle"}
        /\ Answered200(th) => fails < MaxFailures
        /\ fails' = IF Answered200(th) THEN fails + 1 ELSE fails
  /\ thr' = [thr EXCEPT ![Peer(d)]["r"].sent = <<>>]
  /\ pc' = [pc EXCEPT ![d] = "except"]
  /\ att' = [att EXCEPT ![d] = NoAttempt]
  /\ UNCHANGED <<state, treq, qkdNext, ncommit, nsolo, started, foreign>>
  /\ UNCHANGED hist
  /\ UNCHANGED <<uvars, dvars, pvars>>

\* dec_keys answered: fetch_qkd, last_rotate = 0, and the /ack call, which
\* reaches the peer's server or fails to connect.
TimerDecOk(d) ==
  /\ pc[d] = "wait_dec"
  /\ Free(thr[Peer(d)]["a"])
  /\ state' = [state EXCEPT
       ![d] = [fetch_qkd(state[d], treq[d]) EXCEPT !.last_rotate = 0]]
  /\ \E delivered \in BOOLEAN :
       /\ delivered \/ fails < MaxFailures
       /\ thr' = IF delivered
                 THEN [thr EXCEPT ![Peer(d)]["a"] =
                         [pc |-> "recv", kind |-> "ack",
                          id |-> source_KME_ID(d), sent |-> <<>>]]
                 ELSE thr
       /\ fails' = IF delivered THEN fails ELSE fails + 1
  /\ treq' = [treq EXCEPT ![d] = None]
  /\ pc' = [pc EXCEPT ![d] = "wait_ack"]
  /\ UNCHANGED <<qkdNext, att, ncommit, nsolo, started, foreign>>
  /\ UNCHANGED hist
  /\ UNCHANGED <<uvars, dvars, pvars>>

\* dec_keys failed.
TimerDecFail(d) ==
  /\ pc[d] = "wait_dec"
  /\ fails < MaxFailures
  /\ fails' = fails + 1
  /\ treq' = [treq EXCEPT ![d] = None]
  /\ pc' = [pc EXCEPT ![d] = "except"]
  /\ att' = [att EXCEPT ![d] = NoAttempt]
  /\ UNCHANGED <<state, thr, qkdNext, ncommit, nsolo, started, foreign>>
  /\ UNCHANGED hist
  /\ UNCHANGED <<uvars, dvars, pvars>>

\* A commit that does not wait for the answer to /ack.
TimerAckOk_Eager(d) ==
  /\ pc[d] = "wait_ack"
  /\ ~PskUpdateRaises(state[d])
  /\ state' = [state EXCEPT ![d] = psk_update(state[d])]
  /\ thr' = [thr EXCEPT ![Peer(d)]["a"].sent = <<>>]
  /\ pc' = [pc EXCEPT ![d] = "loop"]
  /\ att' = [att EXCEPT ![d] = NoAttempt]
  /\ ncommit' = ncommit + 1
  /\ nsolo' = IF att[d].solo /\ att[d].psk0["X"] = att[d].psk0["Y"]
              THEN nsolo + 1 ELSE nsolo
  /\ UNCHANGED <<treq, qkdNext, fails, started, foreign>>
  /\ hist' = [hist EXCEPT ![d].rotated = TRUE]
  /\ UNCHANGED <<uvars, dvars, pvars>>

\* A commit after which the initiator gives its role up.
TimerAckOk_Yield(d) ==
  /\ pc[d] = "wait_ack"
  /\ LET th == thr[Peer(d)]["a"]
     IN /\ th.pc = "idle"
        /\ Answered200(th)
  /\ ~PskUpdateRaises(state[d])
  /\ state' = [state EXCEPT ![d] = [psk_update(state[d]) EXCEPT !.initiator = FALSE]]
  /\ thr' = [thr EXCEPT ![Peer(d)]["a"].sent = <<>>]
  /\ pc' = [pc EXCEPT ![d] = "loop"]
  /\ att' = [att EXCEPT ![d] = NoAttempt]
  /\ ncommit' = ncommit + 1
  /\ nsolo' = IF att[d].solo /\ att[d].psk0["X"] = att[d].psk0["Y"]
              THEN nsolo + 1 ELSE nsolo
  /\ UNCHANGED <<treq, qkdNext, fails, started, foreign>>
  /\ hist' = [hist EXCEPT ![d].rotated = TRUE]
  /\ UNCHANGED <<uvars, dvars, pvars>>

\* /ack answered 200: psk_update, and back to the top of the loop.
TimerAckOk(d) ==
  /\ pc[d] = "wait_ack"
  /\ LET th == thr[Peer(d)]["a"]
     IN /\ th.pc = "idle"
        /\ Answered200(th)
  /\ ~PskUpdateRaises(state[d])
  /\ state' = [state EXCEPT ![d] = psk_update(state[d])]
  /\ thr' = [thr EXCEPT ![Peer(d)]["a"].sent = <<>>]
  /\ pc' = [pc EXCEPT ![d] = "loop"]
  /\ att' = [att EXCEPT ![d] = NoAttempt]
  /\ ncommit' = ncommit + 1
  /\ nsolo' = IF att[d].solo /\ att[d].psk0["X"] = att[d].psk0["Y"]
              THEN nsolo + 1 ELSE nsolo
  /\ UNCHANGED <<treq, qkdNext, fails, started, foreign>>
  /\ hist' = [hist EXCEPT ![d].rotated = TRUE]
  /\ UNCHANGED <<uvars, dvars, pvars>>

\* /ack failed: no answer, a 404, or the 200 was lost.
TimerAckFail(d) ==
  /\ pc[d] = "wait_ack"
  /\ LET th == thr[Peer(d)]["a"]
     IN /\ th.pc = "idle"
        /\ Answered200(th) => fails < MaxFailures
        /\ fails' = IF Answered200(th) THEN fails + 1 ELSE fails
  /\ thr' = [thr EXCEPT ![Peer(d)]["a"].sent = <<>>]
  /\ pc' = [pc EXCEPT ![d] = "except"]
  /\ att' = [att EXCEPT ![d] = NoAttempt]
  /\ UNCHANGED <<state, treq, qkdNext, ncommit, nsolo, started, foreign>>
  /\ UNCHANGED hist
  /\ UNCHANGED <<uvars, dvars, pvars>>

(***************************************************************************)
(* qupskd: the request server, one thread per request                      *)
(***************************************************************************)
\* handle_rotate up to the enc_keys call: check_peer, and for /new the psk
\* is reset to the seed.
HandleRotateRecv(s, t) ==
  /\ thr[s][t].pc = "recv"
  /\ thr[s][t].kind \in {"new", "rotate"}
  /\ thr' = [thr EXCEPT ![s][t].sent = @ \o check_peer(s, thr[s][t].id),
                        ![s][t].pc = "enc_keys"]
  /\ state' = [state EXCEPT
       ![s].psk = IF thr[s][t].kind = "new"
                  THEN sha3_base64(<<ConfigPsk, IDENTITY_STRING>>)
                  ELSE @]
  /\ hist' = [hist EXCEPT ![s].acked = FALSE]
  /\ UNCHANGED <<pc, treq, qkdNext, fails, att, ncommit, nsolo, started, foreign>>
  /\ UNCHANGED <<uvars, dvars, pvars>>

\* enc_keys answered with a fresh key: fetch_qkd.
HandleRotateQkd(s, t) ==
  /\ thr[s][t].pc = "enc_keys"
  /\ qkdNext <= MaxKeys
  /\ state' = [state EXCEPT ![s] = fetch_qkd(state[s], KeyID(qkdNext))]
  /\ qkdNext' = qkdNext + 1
  /\ thr' = [thr EXCEPT ![s][t].pc = "respond"]
  /\ UNCHANGED <<pc, treq, fails, att, ncommit, nsolo, started, foreign>>
  /\ UNCHANGED hist
  /\ UNCHANGED <<uvars, dvars, pvars>>

\* enc_keys failed: the exception ends the thread, nothing more is written.
HandleRotateQkdFail(s, t) ==
  /\ thr[s][t].pc = "enc_keys"
  /\ fails < MaxFailures
  /\ fails' = fails + 1
  /\ thr' = [thr EXCEPT ![s][t].pc = "idle"]
  /\ UNCHANGED <<state, pc, treq, qkdNext, att, ncommit, nsolo, started, foreign>>
  /\ UNCHANGED hist
  /\ UNCHANGED <<uvars, dvars, pvars>>

\* The 200 response with state["key_ID"] as it is now.
HandleRotateRespond(s, t) ==
  /\ thr[s][t].pc = "respond"
  /\ thr' = [thr EXCEPT ![s][t].sent = Append(@, R200(state[s].key_ID)),
                        ![s][t].pc = "post"]
  /\ UNCHANGED <<state, pc, treq, qkdNext, fails, att, ncommit, nsolo, started, foreign>>
  /\ UNCHANGED hist
  /\ UNCHANGED <<uvars, dvars, pvars>>

\* A handle_rotate that leaves the role of the daemon alone.
HandleRotateFinish_KeepsRole(s, t) ==
  /\ thr[s][t].pc = "post"
  /\ thr' = [thr EXCEPT ![s][t].pc = "idle"]
  /\ att' = [att EXCEPT ![s].yielded = att[s].active]
  /\ UNCHANGED <<state, pc, treq, qkdNext, fails, ncommit, nsolo, started, foreign>>
  /\ UNCHANGED hist
  /\ UNCHANGED <<uvars, dvars, pvars>>

\* state["initiator"] = False, after the response is written.
HandleRotateFinish(s, t) ==
  /\ thr[s][t].pc = "post"
  /\ state' = [state EXCEPT ![s].initiator = FALSE]
  /\ thr' = [thr EXCEPT ![s][t].pc = "idle"]
  /\ att' = [att EXCEPT ![s].yielded = att[s].active]
  /\ UNCHANGED <<pc, treq, qkdNext, fails, ncommit, nsolo, started, foreign>>
  /\ UNCHANGED hist
  /\ UNCHANGED <<uvars, dvars, pvars>>

\* A handle_ack that answers without applying the PSK.
HandleAckCommit_NoUpdate(s, t) ==
  /\ thr[s][t].pc = "recv"
  /\ thr[s][t].kind = "ack"
  /\ thr' = [thr EXCEPT ![s][t].sent = @ \o check_peer(s, thr[s][t].id),
                        ![s][t].pc = "acked"]
  /\ UNCHANGED state
  /\ UNCHANGED <<pc, treq, qkdNext, fails, att, ncommit, nsolo, started, foreign>>
  /\ UNCHANGED hist
  /\ UNCHANGED <<uvars, dvars, pvars>>

\* handle_ack up to the application of the PSK: check_peer and psk_update,
\* whose sorted() raises when no key was ever fetched.
HandleAckCommit(s, t) ==
  /\ thr[s][t].pc = "recv"
  /\ thr[s][t].kind = "ack"
  /\ IF PskUpdateRaises(state[s])
     THEN /\ thr' = [thr EXCEPT ![s][t].sent = @ \o check_peer(s, thr[s][t].id),
                                ![s][t].pc = "idle"]
          /\ UNCHANGED state
     ELSE /\ thr' = [thr EXCEPT ![s][t].sent = @ \o check_peer(s, thr[s][t].id),
                                ![s][t].pc = "acked"]
          /\ state' = [state EXCEPT ![s] = psk_update(state[s])]
  /\ att' = IF ~PskUpdateRaises(state[s]) /\ t = "a"
            THEN [att EXCEPT ![Peer(s)].acked = att[Peer(s)].active]
            ELSE att
  /\ UNCHANGED <<pc, treq, qkdNext, fails, ncommit, nsolo, started, foreign>>
  /\ hist' = IF PskUpdateRaises(state[s]) THEN hist
            ELSE [hist EXCEPT
                    ![s].rotated = TRUE,
                    ![s].acked = @ \/ thr[s][t].id = target_KME_ID(s)]
  /\ UNCHANGED <<uvars, dvars, pvars>>

\* last_rotate = 0 and the 200 response.
HandleAckRespond(s, t) ==
  /\ thr[s][t].pc = "acked"
  /\ state' = [state EXCEPT ![s].last_rotate = 0]
  /\ thr' = [thr EXCEPT ![s][t].sent = Append(@, R200(None)),
                        ![s][t].pc = "idle"]
  /\ UNCHANGED <<pc, treq, qkdNext, fails, att, ncommit, nsolo, started, foreign>>
  /\ UNCHANGED hist
  /\ UNCHANGED <<uvars, dvars, pvars>>

\* A client other than the peer sends /new, /rotate or /ack with a path
\* identifier that is not the configured counterpart.
ForeignRequest(s) ==
  /\ foreign < MaxForeign
  /\ thr[s]["s"].pc = "idle"
  /\ \E kind \in {"new", "rotate", "ack"} :
       \E id \in PathIDs \ {target_KME_ID(s)} :
         thr' = [thr EXCEPT ![s]["s"] =
                   [pc |-> "recv", kind |-> kind, id |-> id, sent |-> <<>>]]
  /\ foreign' = foreign + 1
  /\ att' = [e \in D |->
       IF att[e].active THEN [att[e] EXCEPT !.solo = FALSE] ELSE att[e]]
  /\ UNCHANGED <<state, pc, treq, qkdNext, fails, ncommit, nsolo, started>>
  /\ UNCHANGED hist
  /\ UNCHANGED <<uvars, dvars, pvars>>

\* The /ack of the peer reaches the server once more (a duplicate or a
\* replay), after an /ack was handled and no /new or /rotate since.
ReplayAck(s) ==
  /\ foreign < MaxForeign
  /\ thr[s]["s"].pc = "idle"
  /\ hist[s].acked
  /\ thr' = [thr EXCEPT ![s]["s"] =
              [pc |-> "recv", kind |-> "ack", id |-> target_KME_ID(s),
               sent |-> <<>>]]
  /\ foreign' = foreign + 1
  /\ att' = [e \in D |->
       IF att[e].active THEN [att[e] EXCEPT !.solo = FALSE] ELSE att[e]]
  /\ UNCHANGED <<state, pc, treq, qkdNext, fails, ncommit, nsolo, started>>
  /\ UNCHANGED hist
  /\ UNCHANGED <<uvars, dvars, pvars>>

\* The process of d ends and is started again while no exchange is in
\* flight and its peer holds a rotated psk: d's state is the initial one.
Restart(d) ==
  /\ hist["X"].restarts + hist["Y"].restarts < MaxRestarts
  /\ \A e \in D : pc[e] = "loop"
  /\ \A e \in D : \A t \in Threads : Free(thr[e][t])
  /\ state[Peer(d)].psk # Seed
  /\ state' = [state EXCEPT ![d] = InitState]
  /\ hist' = [hist EXCEPT ![d] = [NoHistory EXCEPT !.restarts = hist[d].restarts + 1]]
  /\ started' = [started EXCEPT ![d] = FALSE]
  /\ att' = [att EXCEPT ![d] = NoAttempt]
  /\ UNCHANGED <<pc, treq, thr, qkdNext, fails, ncommit, nsolo, foreign>>
  /\ UNCHANGED <<uvars, dvars, pvars>>

(***************************************************************************)
(* qupskd: the pairing                                                     *)
(***************************************************************************)
PeerThreads == {"r", "a"}

Timer(d) ==
  \/ TimerBegin(d)
  \/ TimerRotateOk(d)
  \/ TimerRotateFail(d)
  \/ TimerDecOk(d)
  \/ TimerDecFail(d)
  \/ TimerAckOk(d)
  \/ TimerAckFail(d)

Handler(s, t) ==
  \/ HandleRotateRecv(s, t)
  \/ HandleRotateQkd(s, t)
  \/ HandleRotateQkdFail(s, t)
  \/ HandleRotateRespond(s, t)
  \/ HandleRotateFinish(s, t)
  \/ HandleAckCommit(s, t)
  \/ HandleAckRespond(s, t)

\* The two daemons alone.
Next ==
  \/ Tick
  \/ \E d \in D : Timer(d)
  \/ \E s \in D : \E t \in PeerThreads : Handler(s, t)

\* The two daemons, and other clients that reach their request servers.
\* No call of the pairing fails here.
NextOpen ==
  \/ Tick
  \/ \E d \in D : TimerBegin(d) \/ TimerRotateOk(d) \/ TimerDecOk(d) \/ TimerAckOk(d)
  \/ \E s \in D : \E t \in Threads :
       \/ HandleRotateRecv(s, t)
       \/ HandleRotateQkd(s, t)
       \/ HandleRotateRespond(s, t)
       \/ HandleRotateFinish(s, t)
       \/ HandleAckCommit(s, t)
       \/ HandleAckRespond(s, t)
  \/ \E s \in D : ForeignRequest(s)
  \/ \E s \in D : ReplayAck(s)

\* The two daemons and their restarts.  No call of the pairing fails here.
NextRestart ==
  \/ Tick
  \/ \E d \in D : TimerBegin(d) \/ TimerRotateOk(d) \/ TimerDecOk(d) \/ TimerAckOk(d)
  \/ \E s \in D : \E t \in PeerThreads :
       \/ HandleRotateRecv(s, t)
       \/ HandleRotateQkd(s, t)
       \/ HandleRotateRespond(s, t)
       \/ HandleRotateFinish(s, t)
       \/ HandleAckCommit(s, t)
       \/ HandleAckRespond(s, t)
  \/ \E d \in D : Restart(d)

(***************************************************************************)
(* ukms: the orchestrator and its peers                                    *)
(***************************************************************************)
UPeers == {"A", "B"}

\* Path identifiers of inbound requests: the peers, and an unknown one.
UIds == UPeers \cup {"Z"}

\* config["key_rotation_seconds"]
KeyRotationSeconds == 1
\* rotate_in_seconds after a failed fetch
RetrySeconds == 2

\* key_IDs of the QKD source that serves the orchestrator (side 1) and of
\* the one that serves the remote daemon (side 2): the n-th of a window of
\* w keys, MaxUkmsKeys unless a specification says otherwise.
MaxUkmsKeys == 1
UKeyID(side, n) == <<side, n>>
NextInWindow(n, w) == (n % w) + 1

NoHolder == <<"none", "none">>

UIdleThread == [pc |-> "idle", kind |-> "none", sent |-> <<>>]

\* What up[p] may be: every call succeeds, the remote daemon is not
\* reachable, or the QKD endpoint of the pairing fails.
Reach == {"ok", "peer_down", "qkd_down"}

\* main: the record of a configured peer.
InitPeer ==
  [remote_key |-> None, key |-> None, key_ID |-> None, key_update |-> FALSE,
   rotate_in_seconds |-> -1]

UInitWindow(w) ==
  /\ peer_data = [p \in UPeers |-> InitPeer]
  /\ fpc = [p \in UPeers |-> [pc |-> "sleep", key_ID |-> None]]
  /\ apc = [p \in UPeers |-> "sleep"]
  /\ uthr = [i \in UIds |-> UIdleThread]
  /\ written = [p \in UPeers |-> None]
  /\ up \in [UPeers -> Reach]
  /\ uqkd = [p \in UPeers |-> [loc |-> 1, rem |-> 1, win |-> w]]
  /\ holder = NoHolder

UInit == UInitWindow(MaxUkmsKeys)

\* fetch_peer_data, rotate_in_seconds > 0: count down and sleep(1).
FetchTick(p) ==
  /\ holder = NoHolder
  /\ fpc[p].pc = "sleep"
  /\ peer_data[p].rotate_in_seconds > 0
  /\ peer_data' = [peer_data EXCEPT ![p].rotate_in_seconds = @ - 1]
  /\ UNCHANGED <<fpc, apc, uthr, written, up, uqkd, holder>>
  /\ UNCHANGED <<qvars, dvars, pvars>>

\* fetch_peer_data: the call of the peer's /new (first fetch) or /rotate.
\* The call blocks the event loop until it returns.
FetchCall(p) ==
  /\ holder = NoHolder
  /\ fpc[p].pc = "sleep"
  /\ peer_data[p].rotate_in_seconds <= 0
  /\ fpc' = [fpc EXCEPT ![p].pc = "wait_rotate"]
  /\ holder' = <<"fetch", p>>
  /\ UNCHANGED <<peer_data, apc, uthr, written, up, uqkd>>
  /\ UNCHANGED <<qvars, dvars, pvars>>

\* The peer answered with a key_ID: the dec_keys call for it.
FetchRotateOk(p) ==
  /\ fpc[p].pc = "wait_rotate"
  /\ up[p] # "peer_down"
  /\ fpc' = [fpc EXCEPT ![p] = [pc |-> "wait_dec", key_ID |-> UKeyID(2, uqkd[p].rem)]]
  /\ uqkd' = [uqkd EXCEPT ![p].rem = NextInWindow(@, uqkd[p].win)]
  /\ UNCHANGED <<peer_data, apc, uthr, written, up, holder>>
  /\ UNCHANGED <<qvars, dvars, pvars>>

\* dec_keys answered: remote_key, key_update and rotate_in_seconds are set;
\* the loop then counts the first second down and sleeps.
FetchDecOk(p) ==
  /\ fpc[p].pc = "wait_dec"
  /\ up[p] = "ok"
  /\ peer_data' = [peer_data EXCEPT
       ![p].remote_key = KeyOf(fpc[p].key_ID),
       ![p].key_update = TRUE,
       ![p].rotate_in_seconds = KeyRotationSeconds - 1]
  /\ fpc' = [fpc EXCEPT ![p] = [pc |-> "sleep", key_ID |-> None]]
  /\ holder' = NoHolder
  /\ UNCHANGED <<apc, uthr, written, up, uqkd>>
  /\ UNCHANGED <<qvars, dvars, pvars>>

\* A failure path that sets the retry delay of every peer.
FetchFail_AllPeers(p) ==
  /\ \/ fpc[p].pc = "wait_rotate" /\ up[p] = "peer_down"
     \/ fpc[p].pc = "wait_dec" /\ up[p] = "qkd_down"
  /\ peer_data' = [q \in UPeers |->
       [peer_data[q] EXCEPT !.rotate_in_seconds = RetrySeconds - 1]]
  /\ fpc' = [fpc EXCEPT ![p] = [pc |-> "sleep", key_ID |-> None]]
  /\ holder' = NoHolder
  /\ UNCHANGED <<apc, uthr, written, up, uqkd>>
  /\ UNCHANGED <<qvars, dvars, pvars>>

\* A call failed: rotate_in_seconds = 2; the loop then counts the first
\* second down and sleeps.
FetchFail(p) ==
  /\ \/ fpc[p].pc = "wait_rotate" /\ up[p] = "peer_down"
     \/ fpc[p].pc = "wait_dec" /\ up[p] = "qkd_down"
  /\ peer_data' = [peer_data EXCEPT ![p].rotate_in_seconds = RetrySeconds - 1]
  /\ fpc' = [fpc EXCEPT ![p] = [pc |-> "sleep", key_ID |-> None]]
  /\ holder' = NoHolder
  /\ UNCHANGED <<apc, uthr, written, up, uqkd>>
  /\ UNCHANGED <<qvars, dvars, pvars>>

\* update_psk: key material is ready on both sides; derive and write.
ApplyWrite(p) ==
  /\ holder = NoHolder
  /\ apc[p] = "sleep"
  /\ peer_data[p].key_update
  /\ ~Falsy(peer_data[p].key)
  /\ ~Falsy(peer_data[p].remote_key)
  /\ written' = [written EXCEPT
       ![p] = UkmsDerive(peer_data[p].remote_key, peer_data[p].key)]
  /\ apc' = [apc EXCEPT ![p] = "clear"]
  /\ holder' = <<"apply", p>>
  /\ UNCHANGED <<peer_data, fpc, uthr, up, uqkd>>
  /\ UNCHANGED <<qvars, dvars, pvars>>

\* update_psk: key_update = False, and sleep(1).
ApplyClear(p) ==
  /\ apc[p] = "clear"
  /\ peer_data' = [peer_data EXCEPT ![p].key_update = FALSE]
  /\ apc' = [apc EXCEPT ![p] = "sleep"]
  /\ holder' = NoHolder
  /\ UNCHANGED <<fpc, uthr, written, up, uqkd>>
  /\ UNCHANGED <<qvars, dvars, pvars>>

\* A remote daemon calls /new or /rotate with the path identifier i.
UInbound(i) ==
  /\ uthr[i].pc = "idle"
  /\ \E kind \in {"new", "rotate"} :
       uthr' = [uthr EXCEPT ![i] = [pc |-> "recv", kind |-> kind, sent |-> <<>>]]
  /\ UNCHANGED <<peer_data, fpc, apc, written, up, uqkd, holder>>
  /\ UNCHANGED <<qvars, dvars, pvars>>

\* handle_rotate: no such peer, 404 and return.
UHandleUnknown(i) ==
  /\ uthr[i].pc = "recv"
  /\ i \notin DOMAIN peer_data
  /\ uthr' = [uthr EXCEPT ![i].sent = Append(@, R404), ![i].pc = "idle"]
  /\ UNCHANGED <<peer_data, fpc, apc, written, up, uqkd, holder>>
  /\ UNCHANGED <<qvars, dvars, pvars>>

\* handle_rotate up to the enc_keys call; /new resets rotate_in_seconds and
\* remote_key.
UHandleRecv(i) ==
  /\ uthr[i].pc = "recv"
  /\ i \in DOMAIN peer_data
  /\ peer_data' = [peer_data EXCEPT
       ![i].rotate_in_seconds = IF uthr[i].kind = "new" THEN 0 ELSE @,
       ![i].remote_key = IF uthr[i].kind = "new" THEN None ELSE @]
  /\ uthr' = [uthr EXCEPT ![i].pc = "enc_keys"]
  /\ UNCHANGED <<fpc, apc, written, up, uqkd, holder>>
  /\ UNCHANGED <<qvars, dvars, pvars>>

\* fetch_qkd_key: enc_keys answered with a fresh key.
UHandleQkd(i) ==
  /\ uthr[i].pc = "enc_keys"
  /\ up[i] # "qkd_down"
  /\ peer_data' = [peer_data EXCEPT
       ![i].key_ID = UKeyID(1, uqkd[i].loc),
       ![i].key = KeyOf(UKeyID(1, uqkd[i].loc))]
  /\ uqkd' = [uqkd EXCEPT ![i].loc = NextInWindow(@, uqkd[i].win)]
  /\ uthr' = [uthr EXCEPT ![i].pc = "respond"]
  /\ UNCHANGED <<fpc, apc, written, up, holder>>
  /\ UNCHANGED <<qvars, dvars, pvars>>

\* fetch_qkd_key failed: the exception ends the thread.
UHandleQkdFail(i) ==
  /\ uthr[i].pc = "enc_keys"
  /\ up[i] = "qkd_down"
  /\ uthr' = [uthr EXCEPT ![i] = UIdleThread]
  /\ UNCHANGED <<peer_data, fpc, apc, written, up, uqkd, holder>>
  /\ UNCHANGED <<qvars, dvars, pvars>>

\* The 200 response with the key_ID.
UHandleRespond(i) ==
  /\ uthr[i].pc = "respond"
  /\ uthr' = [uthr EXCEPT ![i].sent = Append(@, R200(peer_data[i].key_ID)),
                          ![i].pc = "post"]
  /\ UNCHANGED <<peer_data, fpc, apc, written, up, uqkd, holder>>
  /\ UNCHANGED <<qvars, dvars, pvars>>

\* key_update = True, after the response is written.
UHandleFinish(i) ==
  /\ uthr[i].pc = "post"
  /\ peer_data' = [peer_data EXCEPT ![i].key_update = TRUE]
  /\ uthr' = [uthr EXCEPT ![i] = UIdleThread]
  /\ UNCHANGED <<fpc, apc, written, up, uqkd, holder>>
  /\ UNCHANGED <<qvars, dvars, pvars>>

UTask(p) ==
  \/ FetchTick(p)
  \/ FetchCall(p)
  \/ FetchRotateOk(p)
  \/ FetchDecOk(p)
  \/ FetchFail(p)
  \/ ApplyWrite(p)
  \/ ApplyClear(p)

UHandler(i) ==
  \/ UHandleUnknown(i)
  \/ UHandleRecv(i)
  \/ UHandleQkd(i)
  \/ UHandleQkdFail(i)
  \/ UHandleRespond(i)
  \/ UHandleFinish(i)

UNext ==
  \/ \E p \in UPeers : UTask(p)
  \/ \E i \in UIds : UInbound(i)
  \/ \E i \in UIds : UHandler(i)

\* A configured peer calls; one whose daemon is down does not.
UInboundPeer(p) ==
  /\ up[p] # "peer_down"
  /\ UInbound(p)

\* The steps of the orchestrator when only configured peers call.
UNextPeers ==
  \/ \E p \in UPeers : UTask(p)
  \/ \E p \in UPeers : UInboundPeer(p)
  \/ \E p \in UPeers :
       \/ UHandleRecv(p)
       \/ UHandleQkd(p)
       \/ UHandleQkdFail(p)
       \/ UHandleRespond(p)
       \/ UHandleFinish(p)

\* The coroutine that holds the event loop: its blocking call returns.
Returns(p) ==
  \/ FetchRotateOk(p)
  \/ FetchDecOk(p)
  \/ FetchFail(p)
  \/ ApplyClear(p)

\* asyncio runs every ready coroutine in turn, a blocking call returns, and
\* the daemon of the reachable peer B keeps calling and is served.
UFair ==
  /\ \A p \in UPeers : SF_vars(FetchTick(p)) /\ SF_vars(FetchCall(p))
  /\ SF_vars(ApplyWrite("B"))
  /\ WF_vars(\E p \in UPeers : Returns(p))
  /\ WF_vars(UInbound("B") \/ UHandler("B"))

(***************************************************************************)
(* ukms: two daemons configured as each other's peer                       *)
(***************************************************************************)
Daemons == {"M", "N"}
Other(m) == IF m = "M" THEN "N" ELSE "M"

\* Keys the QKD source of the pair issues.
MaxPairKeys == 3

\* main of each daemon: the record of its one peer, both tasks asleep, no
\* request being served, nothing written.
InitDaemon ==
  [peer |-> InitPeer,
   fetch |-> [pc |-> "sleep", key_ID |-> None],
   apply |-> "sleep",
   thread |-> [pc |-> "idle", kind |-> "none"],
   resp |-> None,
   written |-> None,
   loop |-> "none"]

PInit ==
  /\ daemon = [m \in Daemons |-> InitDaemon]
  /\ issued = 0

\* fetch_peer_data of m, rotate_in_seconds > 0: count down and sleep(1).
PairFetchTick(m) ==
  /\ daemon[m].loop = "none"
  /\ daemon[m].fetch.pc = "sleep"
  /\ daemon[m].peer.rotate_in_seconds > 0
  /\ daemon' = [daemon EXCEPT ![m].peer.rotate_in_seconds = @ - 1]
  /\ UNCHANGED issued
  /\ UNCHANGED <<qvars, uvars, dvars>>

\* fetch_peer_data of m: /new on the first fetch, /rotate afterwards; the
\* request reaches the request server of the other daemon, and m's event
\* loop is blocked until the call returns.
PairFetchCall(m) ==
  /\ daemon[m].loop = "none"
  /\ daemon[m].fetch.pc = "sleep"
  /\ daemon[m].peer.rotate_in_seconds <= 0
  /\ daemon[Other(m)].thread.pc = "idle"
  /\ daemon' = [daemon EXCEPT
       ![m].fetch.pc = "wait_rotate",
       ![m].loop = "fetch",
       ![Other(m)].thread =
          [pc |-> "recv",
           kind |-> IF daemon[m].peer.rotate_in_seconds = -1
                    THEN "new" ELSE "rotate"]]
  /\ UNCHANGED issued
  /\ UNCHANGED <<qvars, uvars, dvars>>

\* handle_rotate of n up to the enc_keys call; /new resets rotate_in_seconds
\* and remote_key.
PairHandleRecv(n) ==
  /\ daemon[n].thread.pc = "recv"
  /\ daemon' = [daemon EXCEPT
       ![n].peer.rotate_in_seconds =
          IF daemon[n].thread.kind = "new" THEN 0 ELSE @,
       ![n].peer.remote_key =
          IF daemon[n].thread.kind = "new" THEN None ELSE @,
       ![n].thread.pc = "enc_keys"]
  /\ UNCHANGED issued
  /\ UNCHANGED <<qvars, uvars, dvars>>

\* fetch_qkd_key of n: enc_keys issues a key never issued before.
PairHandleQkd(n) ==
  /\ daemon[n].thread.pc = "enc_keys"
  /\ issued < MaxPairKeys
  /\ issued' = issued + 1
  /\ daemon' = [daemon EXCEPT
       ![n].peer.key_ID = KeyID(issued + 1),
       ![n].peer.key = KeyOf(KeyID(issued + 1)),
       ![n].thread.pc = "respond"]
  /\ UNCHANGED <<qvars, uvars, dvars>>

\* The 200 response of n with its key_ID.
PairHandleRespond(n) ==
  /\ daemon[n].thread.pc = "respond"
  /\ daemon' = [daemon EXCEPT
       ![n].resp = daemon[n].peer.key_ID,
       ![n].thread.pc = "post"]
  /\ UNCHANGED issued
  /\ UNCHANGED <<qvars, uvars, dvars>>

\* key_update = True of n, after the response is written.
PairHandleFinish(n) ==
  /\ daemon[n].thread.pc = "post"
  /\ daemon' = [daemon EXCEPT
       ![n].peer.key_update = TRUE,
       ![n].thread = [pc |-> "idle", kind |-> "none"]]
  /\ UNCHANGED issued
  /\ UNCHANGED <<qvars, uvars, dvars>>

\* m reads the key_ID of the response: the dec_keys call for it.
PairFetchRotateOk(m) ==
  /\ daemon[m].fetch.pc = "wait_rotate"
  /\ ~Falsy(daemon[Other(m)].resp)
  /\ daemon' = [daemon EXCEPT
       ![m].fetch = [pc |-> "wait_dec", key_ID |-> daemon[Other(m)].resp],
       ![Other(m)].resp = None]
  /\ UNCHANGED issued
  /\ UNCHANGED <<qvars, uvars, dvars>>

\* dec_keys returns the key that enc_keys issued with this key_ID:
\* remote_key, key_update and rotate_in_seconds of m are set.
PairFetchDecOk(m) ==
  /\ daemon[m].fetch.pc = "wait_dec"
  /\ daemon' = [daemon EXCEPT
       ![m].peer.remote_key = KeyOf(daemon[m].fetch.key_ID),
       ![m].peer.key_update = TRUE,
       ![m].peer.rotate_in_seconds = KeyRotationSeconds,
       ![m].fetch = [pc |-> "sleep", key_ID |-> None],
       ![m].loop = "none"]
  /\ UNCHANGED issued
  /\ UNCHANGED <<qvars, uvars, dvars>>

\* update_psk of m: key material is ready on both sides; derive and write.
PairApplyWrite(m) ==
  /\ daemon[m].loop = "none"
  /\ daemon[m].apply = "sleep"
  /\ daemon[m].peer.key_update
  /\ ~Falsy(daemon[m].peer.key)
  /\ ~Falsy(daemon[m].peer.remote_key)
  /\ daemon' = [daemon EXCEPT
       ![m].written = UkmsDerive(daemon[m].peer.remote_key, daemon[m].peer.key),
       ![m].apply = "clear",
       ![m].loop = "apply"]
  /\ UNCHANGED issued
  /\ UNCHANGED <<qvars, uvars, dvars>>

\* update_psk of m: key_update = False, and sleep(1).
PairApplyClear(m) ==
  /\ daemon[m].apply = "clear"
  /\ daemon' = [daemon EXCEPT
       ![m].peer.key_update = FALSE,
       ![m].apply = "sleep",
       ![m].loop = "none"]
  /\ UNCHANGED issued
  /\ UNCHANGED <<qvars, uvars, dvars>>

PairNext ==
  \E m \in Daemons :
    \/ PairFetchTick(m)
    \/ PairFetchCall(m)
    \/ PairFetchRotateOk(m)
    \/ PairFetchDecOk(m)
    \/ PairApplyWrite(m)
    \/ PairApplyClear(m)
    \/ PairHandleRecv(m)
    \/ PairHandleQkd(m)
    \/ PairHandleRespond(m)
    \/ PairHandleFinish(m)

(***************************************************************************)
(* The deriver applied to the parts of an input, in any order               *)
(***************************************************************************)
MaxLen == 2
MaxChar == 2

\* The strings of at most MaxLen characters, the empty one included.
DStrings == UNION {[1..n -> 1..MaxChar] : n \in 0..MaxLen}

NoOut == [done |-> FALSE, of |-> <<>>, sha |-> None, inline |-> None, two |-> None]

\* The outputs of the three derivations for the list l of two or three parts.
Outputs(l) ==
  [done |-> TRUE,
   of |-> l,
   sha |-> sha3_base64(l),
   inline |-> IF Len(l) = 3 THEN PskDerive(l[1], l[2], l[3]) ELSE None,
   two |-> IF Len(l) = 2 THEN UkmsDerive(l[1], l[2]) ELSE None]

DInit == parts = <<>> /\ out = NoOut /\ PInit

DInitParts ==
  /\ PInit
  /\ parts \in [1..2 -> DStrings] \cup [1..3 -> DStrings]
  /\ out = NoOut

\* The derivations are applied to the parts as they are ordered now.
Derive ==
  /\ parts # <<>>
  /\ ~out.done
  /\ out' = Outputs(parts)
  /\ UNCHANGED parts
  /\ UNCHANGED <<qvars, uvars, pvars>>

\* The caller orders the parts differently: two neighbours change places.
Swap(i) ==
  /\ i \in 1..(Len(parts) - 1)
  /\ parts[i] # parts[i + 1]
  /\ parts' = [parts EXCEPT ![i] = parts[i + 1], ![i + 1] = parts[i]]
  /\ UNCHANGED out
  /\ UNCHANGED <<qvars, uvars, pvars>>

DNext ==
  \/ Derive
  \/ \E i \in 1..2 : Swap(i)

(***************************************************************************)
(* Specifications                                                          *)
(***************************************************************************)
AllUp == [p \in UPeers |-> "ok"]

Init == QInit /\ fails = 0 /\ UInit /\ up = AllUp /\ DInit

Spec == Init /\ [][Next]_vars

InitOpen == QInit /\ fails = MaxFailures /\ UInit /\ up = AllUp /\ DInit

SpecOpen == InitOpen /\ [][NextOpen]_vars

SpecPair == Init /\ [][PairNext]_vars

SpecRestart == InitOpen /\ [][NextRestart]_vars

InitUkms == QInit /\ fails = 0 /\ UInit /\ DInit

InitDeriver == QInit /\ fails = 0 /\ UInit /\ up = AllUp /\ DInitParts

SpecDeriver == InitDeriver /\ [][DNext]_vars

SpecUkms == InitUkms /\ [][UNext]_vars

\* The orchestrator with QKD sources whose successive keys differ; the QKD
\* endpoint of the pairing with B fails.
InitUkmsKeys ==
  /\ QInit /\ fails = 0 /\ DInit
  /\ UInitWindow(MaxUkmsKeys + 1)
  /\ up = [p \in UPeers |-> IF p = "A" THEN "ok" ELSE "qkd_down"]

SpecUkmsKeys == InitUkmsKeys /\ [][UNextPeers]_vars

\* The orchestrator under the fairness of its scheduling, with a peer whose
\* calls fail.
InitUkmsFair == InitUkms /\ up["A"] # "ok" /\ up["B"] = "ok"

SpecUkmsFair == InitUkmsFair /\ [][UNextPeers]_vars /\ UFair

(***************************************************************************)
(* Claims about qupskd                                                     *)
(***************************************************************************)
\* d's timer loop commits: /ack was answered and psk_update has run.
CommitStep(d) == pc[d] = "wait_ack" /\ pc'[d] = "loop"

\* d's exchange attempt ends in the except branch.
FailStep(d) == pc[d] # "except" /\ pc'[d] = "except"

\* No exchange is in flight.
Quiet ==
  /\ \A d \in D : pc[d] = "loop"
  /\ \A d \in D : \A t \in Threads : Free(thr[d][t])

\* The clock can step: both timer loops sleep and no request is served.
AtTick ==
  /\ \A d \in D : (pc[d] = "loop" /\ Waiting(d)) \/ pc[d] = "except"
  /\ \A d \in D : \A t \in Threads : thr[d][t].pc = "idle"

PskAgree == state["X"].psk = state["Y"].psk

\* C1 (exchange convergence): when an initiator commits an exchange that
\* began with both daemons holding the same psk and during which no exchange
\* ran in the opposite direction, both daemons hold the same psk; this is so
\* for every such exchange of a run.
C1_ExchangeConvergence ==
  [][\A d \in D :
       (CommitStep(d) /\ att[d].solo /\ att[d].psk0["X"] = att[d].psk0["Y"])
         => PskAgree']_vars

\* Two exchanges that ran alone from equal PSKs have been committed, the
\* second one a /rotate on top of the first.
C1_Witness == nsolo = 2 /\ PskAgree /\ state["X"].psk # Seed

\* C2 (simultaneous start, single initiator): with no transport failure, at
\* most one daemon sends /new or /rotate in the first cycle.
C2_SingleInitiator ==
  (fails = 0 /\ ncommit = 0) => ~(started["X"] /\ started["Y"])

\* C3 (simultaneous start, agreement): with no transport failure, once no
\* exchange is in flight both daemons hold the same psk.
C3_AgreeWhenQuiet == (fails = 0 /\ Quiet) => PskAgree

C5_PartialLeavesPsk ==
  [][\A d \in D :
       (FailStep(d) /\ att[d].solo)
         => \A e \in D : state'[e].psk = att[d].psk0[e]]_vars

\* C9 (initiator yields after commit): when the initiator commits, its
\* last_rotate is 0 and its role is Responder.
C9_YieldsAfterCommit ==
  [][\A d \in D :
       CommitStep(d)
         => state'[d].last_rotate = 0 /\ state'[d].initiator = FALSE]_vars

\* C9 as amended: when the initiator commits, its last_rotate is 0 and the
\* commit leaves its role alone: it holds the Initiator role still, unless
\* it served a /new or /rotate of its peer since the attempt began.
C9_KeepsRoleAfterCommit ==
  [][\A d \in D :
       CommitStep(d)
         => /\ state'[d].last_rotate = 0
            /\ state'[d].initiator = ~att[d].yielded]_vars

\* The only daemon that ever started an exchange has committed it and is
\* back at its loop, still the Initiator, with last_rotate 0.
C9_Witness ==
  \E d \in D :
    /\ ncommit = 1 /\ started[d] /\ ~started[Peer(d)]
    /\ pc[d] = "loop" /\ state[d].initiator /\ state[d].last_rotate = 0

\* C10 (state unchanged on transport error): when an attempt ends in the
\* except branch, with no request served meanwhile, the daemon's state is
\* what it was when the attempt began.
C10_FailureRestoresState ==
  [][\A d \in D :
       (FailStep(d) /\ att[d].solo) => state'[d] = att[d].st0]_vars

\* C6 (authorization): a request whose path identifier is not the
\* configured counterpart is answered with a 404 and nothing else.
C6_Only404 ==
  \A s \in D :
    LET th == thr[s]["s"]
    IN (th.id # "none" /\ th.id # target_KME_ID(s))
         => /\ \A i \in 1..Len(th.sent) : th.sent[i] = R404
            /\ Len(th.sent) <= 1

\* Peer A's calls always fail and peer B's always succeed.
AFailsBSucceeds == up["A"] # "ok" /\ up["B"] = "ok"

\* A step of peer A's fetch or apply task.
StepOfTasks(p) ==
  \/ fpc'[p] # fpc[p]
  \/ apc'[p] # apc[p]
  \/ (holder = NoHolder /\ fpc[p].pc = "sleep"
      /\ peer_data'[p].rotate_in_seconds = peer_data[p].rotate_in_seconds - 1)

\* C7 (ukms peer isolation): when every fetch for peer A fails and those for
\* peer B succeed, A's fetch task keeps retrying, B nonetheless reaches a
\* written PSK, and no step of A's fetch or apply task changes a field of
\* B's peer record.
C7_PeerIsolation ==
  /\ AFailsBSucceeds => <>(written["B"] # None)
  /\ AFailsBSucceeds => []<>(fpc["A"].pc = "wait_rotate")
  /\ [][(AFailsBSucceeds /\ StepOfTasks("A")) =>
          peer_data'["B"] = peer_data["B"]]_vars

C7_Witness ==
  /\ AFailsBSucceeds
  /\ written["B"] # None
  /\ peer_data["A"].rotate_in_seconds = RetrySeconds - 1
  /\ Falsy(peer_data["A"].remote_key)
  /\ written["A"] = None


\* C8 (commutativity of the deriver): however the two or three parts of an
\* input are ordered, sha3_base64, the inline derivation of psk_update and
\* the two-key derivation of ukms update_psk give the output they gave for
\* the first order.
C8_DeriverCommutes ==
  out.done =>
    /\ out.sha = sha3_base64(parts)
    /\ Len(parts) = 3 => out.inline = PskDerive(parts[1], parts[2], parts[3])
    /\ Len(parts) = 2 => out.two = UkmsDerive(parts[1], parts[2])

C8_Witness ==
  /\ out.done
  /\ Len(parts) = 3
  /\ parts[1] # out.of[1] /\ parts[2] # out.of[2] /\ parts[3] # out.of[3]
  /\ out.inline = PskDerive(parts[1], parts[2], parts[3])

\* C11 (short retry delay): after a failure inside an exchange attempt,
\* with no request served meanwhile, the daemon is outside its waiting
\* window, so that the loop starts the next attempt on its next pass, one
\* sleep(1) later.
C11_RetryAfterShortDelay ==
  [][\A d \in D :
       (FailStep(d) /\ att[d].solo)
         => ~(/\ -1 < state'[d].last_rotate
              /\ state'[d].last_rotate <
                   (IF state'[d].initiator THEN INITIATOR_WAIT_SECONDS
                    ELSE RESPONDER_WAIT_SECONDS))]_vars

\* The /ack request of d reaches its peer's server.
AckArrives(d) ==
  thr[Peer(d)]["a"].pc # "recv" /\ thr'[Peer(d)]["a"].pc = "recv"

\* s's psk is changed by the thread of s that handles an /ack.
AckThreadCommits(s) ==
  \E t \in Threads :
    /\ thr[s][t].kind = "ack"
    /\ thr[s][t].pc = "recv"
    /\ thr'[s][t].pc = "acked"

\* s's psk is reset to the seed by the thread of s that handles a /new.
NewThreadResets(s) ==
  /\ state'[s].psk = Seed
  /\ \E t \in Threads : thr[s][t].kind = "new" /\ thr[s][t].pc = "recv"

\* C12 (handshake ordering): the /ack of an attempt is sent only when /new
\* or /rotate has returned a key_ID and the dec_keys fetch for it has
\* succeeded; the initiator commits only an exchange whose /ack its peer has
\* handled and committed; and a daemon's psk changes only by its own commit
\* as initiator, by its handling of an /ack, or by the reset of a /new.
C12_HandshakeOrder ==
  [][\A d \in D :
       /\ AckArrives(d) =>
            /\ pc[d] = "wait_dec"
            /\ ~Falsy(treq[d])
            /\ state'[d].key_ID = treq[d]
            /\ state'[d].key = KeyOf(treq[d])
       /\ CommitStep(d) => att[d].acked
       /\ state'[d].psk # state[d].psk =>
            CommitStep(d) \/ AckThreadCommits(d) \/ NewThreadResets(d)]_vars

\* One exchange has been committed by both sides, the responder first.
C12_Witness ==
  /\ ncommit = 1 /\ nsolo = 1
  /\ PskAgree /\ state["X"].psk # Seed
  /\ \E d \in D : started[d] /\ ~started[Peer(d)] /\ state[d].last_rotate = 0

\* d's /new or /rotate request reaches its peer's server.
RotateArrives(d) ==
  /\ pc[d] = "loop" /\ pc'[d] = "wait_rotate"
  /\ thr[Peer(d)]["r"].pc # "recv" /\ thr'[Peer(d)]["r"].pc = "recv"

\* C13 (choice of /new versus /rotate): the request that opens an exchange
\* is /new exactly when the daemon has not completed a rotation yet.
C13_NewUntilRotated ==
  [][\A d \in D :
       RotateArrives(d) =>
         (thr'[Peer(d)]["r"].kind = "new" <=> ~hist[d].rotated)]_vars

\* A thread of s applies the PSK for an /ack of the peer when s has handled
\* an /ack already and no /new or /rotate since.
SecondAck(s) ==
  \E t \in Threads :
    /\ thr[s][t].kind = "ack"
    /\ thr[s][t].id = target_KME_ID(s)
    /\ thr[s][t].pc = "recv"
    /\ thr'[s][t].pc = "acked"
    /\ hist[s].acked

\* C14 (idempotent /ack): handling an /ack again, with no /new or /rotate in
\* between, leaves the psk of the responder as the first /ack left it.
C14_SecondAckKeepsPsk ==
  [][\A s \in D : SecondAck(s) => state'[s].psk = state[s].psk]_vars

\* C15 (self-healing): after transport failures, an exchange that runs
\* alone and completes leaves both daemons with the same psk.
C15_HealsAfterFailures ==
  [][\A d \in D :
       (CommitStep(d) /\ att[d].solo /\ fails >= 1) => PskAgree']_vars

\* A thread of s takes a step of handling a request whose path identifier
\* is not the configured counterpart.
RejectedStep(s) ==
  \E t \in Threads :
    /\ thr[s][t].pc \notin {"idle"}
    /\ thr[s][t].id # target_KME_ID(s)
    /\ thr'[s][t] # thr[s][t]

\* C16 (a rejected request has no effect): handling a /new, /rotate or /ack
\* whose path identifier does not match target_KME_ID leaves psk, key_ID,
\* key, last_rotate and initiator of the daemon as they were.
C16_RejectedLeavesState ==
  [][\A s \in D : RejectedStep(s) => state'[s] = state[s]]_vars

\* d was restarted and has not completed a rotation since.
FreshlyRestarted(d) == hist[d].restarts >= 1 /\ ~hist[d].rotated

\* C17 (restart recovery through /new): with no transport failure, the
\* first exchange of a restarted daemon opens with /new, and when the
\* restarted daemon commits its first rotation both daemons hold the same
\* psk.
C17_RestartRecovers ==
  [][\A d \in D :
       /\ (RotateArrives(d) /\ FreshlyRestarted(d) /\ ~started[d])
            => thr'[Peer(d)]["r"].kind = "new"
       /\ (CommitStep(d) /\ FreshlyRestarted(d)) => PskAgree']_vars

\* last_rotate of every daemon is within -1 .. RESPONDER_WAIT_SECONDS.
CounterInBounds ==
  \A d \in D : /\ -1 <= state[d].last_rotate
               /\ state[d].last_rotate <= RESPONDER_WAIT_SECONDS

\* last_rotate of d grows only inside d's waiting window and not past it;
\* any other change is the reset to 0.
CounterStep(d) ==
  state'[d].last_rotate # state[d].last_rotate
    => \/ state'[d].last_rotate = 0
       \/ /\ Waiting(d)
          /\ state[d].last_rotate < state'[d].last_rotate
          /\ state'[d].last_rotate <= Window(d)

\* C20 (wait counter bounds): last_rotate stays within -1 .. 130, it grows
\* only inside the waiting window of the daemon's role, and when an attempt
\* ends in the except branch, with no request served meanwhile, the counter
\* is where it was when the attempt began, past the window.
C20_CounterBounds ==
  /\ []CounterInBounds
  /\ [][\A d \in D :
          /\ CounterStep(d)
          /\ (FailStep(d) /\ att[d].solo)
               => state'[d].last_rotate = att[d].st0.last_rotate]_vars

(***************************************************************************)
(* Claims about the application of keys in ukms                            *)
(***************************************************************************)
\* The request-server thread of p has changed key and not yet set
\* key_update.
KeyChangePending(p) == uthr[p].pc \in {"respond", "post"}

\* The file of p holds the PSK of the current key and remote_key.
WrittenIsLatest(p) ==
  written[p] = UkmsDerive(peer_data[p].remote_key, peer_data[p].key)

\* C18 (no lost apply): when key and remote_key of a peer are set and
\* key_update is cleared, with no change of key waiting for its key_update,
\* the last written PSK is the one derived from the current key and
\* remote_key.
C18_NoLostApply ==
  \A p \in UPeers :
    ( /\ ~Falsy(peer_data[p].key)
      /\ ~Falsy(peer_data[p].remote_key)
      /\ ~peer_data[p].key_update
      /\ apc[p] = "sleep"
      /\ ~KeyChangePending(p) ) => WrittenIsLatest(p)

\* No request between the two daemons is in flight.
PairQuiet ==
  \A m \in Daemons :
    /\ daemon[m].fetch.pc = "sleep"
    /\ daemon[m].thread.pc = "idle"
    /\ Falsy(daemon[m].resp)

\* Both daemons hold both keys and have nothing left to apply.
PairApplied ==
  \A m \in Daemons :
    /\ ~daemon[m].peer.key_update
    /\ ~Falsy(daemon[m].peer.key)
    /\ ~Falsy(daemon[m].peer.remote_key)

\* C19 (orchestrator agreement): with no request in flight, key_update
\* false on both daemons and key and remote_key set on both, the two
\* daemons have written the same PSK.
C19_PairAgrees ==
  (PairQuiet /\ PairApplied) => daemon["M"].written = daemon["N"].written

====
